---- MODULE Spec2Model ----
(***************************************************************************)
(* Step4Report.vue: the report view's incremental log ingestion.  Two      *)
(* interval timers poll the agent-log and console-log endpoints with a     *)
(* line cursor; every agent-log entry of a response is folded into the     *)
(* derived state (outline, sections, completion).  The reportId prop       *)
(* selects the session; a watcher resets the session when it changes.      *)
(***************************************************************************)
EXTENDS Integers, Sequences, FiniteSets, Bags, TLC

VARIABLES
  reportId,             \* props.reportId ("" when absent)
  phase,                \* component lifecycle: "created", "mounted", "unmounted"
  agentLogs,            \* ref([])   entries folded so far
  consoleLogs,          \* ref([])   console lines received so far
  agentLogLine,         \* ref(0)    agent-log cursor
  consoleLogLine,       \* ref(0)    console-log cursor
  reportOutline,        \* ref(null)
  currentSectionIndex,  \* ref(null)
  generatedSections,    \* ref({})   section_index -> content
  expandedContent,      \* ref(new Set())
  expandedLogs,         \* ref(new Set())
  collapsedSections,    \* ref(new Set())
  isComplete,           \* ref(false)
  startTime,            \* ref(null)
  showRawResult,        \* reactive({})  timestamp -> boolean
  agentLogTimer,        \* TRUE while the agent interval is set
  consoleLogTimer,      \* TRUE while the console interval is set
  intervals,            \* per stream, the intervals set and not cleared
  inflight,             \* requests sent whose response has not been handled
  polls,                \* number of requests sent so far
  statusEmits,          \* number of emit('update-status', 'completed')
  serverAgent,          \* the endpoint's agent log of each report
  serverConsole,        \* the endpoint's console log of each report
  polled,               \* history: per stream, the counts of this session's successful polls
  serial,               \* history: per stream, this session's polls were handled one after another
  failed,               \* history: the streams that have had a failed poll
  visited,              \* history: the report ids that have had a session
  idle,                 \* history: the streams whose tick has fired since the report id is absent
  input,                \* the argument of the last extractor or renderer call
  output                \* what that call returned

session == <<agentLogs, consoleLogs, agentLogLine, consoleLogLine, reportOutline,
             currentSectionIndex, generatedSections, expandedContent, expandedLogs,
             collapsedSections, isComplete, startTime>>
timers == <<agentLogTimer, consoleLogTimer, intervals>>
server == <<serverAgent, serverConsole>>
history == <<polled, serial, failed, visited, idle>>
calls == <<input, output>>
vars == <<reportId, phase, session, showRawResult, timers, inflight, polls,
          statusEmits, server, history, calls>>

----------------------------------------------------------------------------
\* Bounds of the model.
MaxPolls == 3
MaxLog == 3

\* Values.
NoId == ""
Ids == {"A", "B"}
null == 0
NoOutline == "null"
Streams == {"agent", "console"}

\* A LogEntry: action, section_index, details.outline, details.content, timestamp.
\* An absent section_index is null, an absent outline NoOutline, an absent
\* (or empty) content "".
Entry(a, i, o, c, t) ==
  [action |-> a, section_index |-> i, outline |-> o, content |-> c, timestamp |-> t]

Min(a, b) == IF a < b THEN a ELSE b

----------------------------------------------------------------------------
\* The endpoints.  getAgentLog(reportId, fromLine) answers with the entries at
\* index >= fromLine that the log holds when it answers (its first upTo
\* entries), and echoes from_line.
GetLog(log, fromLine, upTo) ==
  [from_line |-> fromLine,
   logs |-> IF upTo > fromLine THEN SubSeq(log, fromLine + 1, upTo) ELSE <<>>]

\* How a request can end: the call rejects, answers success=false, answers
\* without data, or answers with data.
Outcomes == {"rejected", "unsuccessful", "nodata", "ok"}

----------------------------------------------------------------------------
FoldOutlineOnce(d, log) ==
  IF log.action = "planning_complete" /\ log.outline # NoOutline
     /\ d.reportOutline = NoOutline
  THEN [d EXCEPT !.reportOutline = log.outline]
  ELSE d

\* The fold of one agent-log entry (the body of newLogs.forEach).
FoldOutline(d, log) ==
  IF log.action = "planning_complete" /\ log.outline # NoOutline
  THEN [d EXCEPT !.reportOutline = log.outline]
  ELSE d

FoldSectionStartIfIdle(d, log) ==
  IF log.action = "section_start" /\ d.currentSectionIndex = null
  THEN [d EXCEPT !.currentSectionIndex = log.section_index]
  ELSE d

FoldSectionStart(d, log) ==
  IF log.action = "section_start"
  THEN [d EXCEPT !.currentSectionIndex = log.section_index]
  ELSE d

SetSectionOnly(gs, i, c) ==
  [k \in {i} |-> c]

SetSection(gs, i, c) ==
  [k \in DOMAIN gs \cup {i} |-> IF k = i THEN c ELSE gs[k]]

FoldSectionAnyContent(d, log) ==
  IF log.action \in {"section_complete", "section_content", "subsection_content"}
  THEN IF log.content # ""
       THEN [d EXCEPT !.generatedSections = SetSection(@, log.section_index, log.content),
                      !.expandedContent = @ \cup {log.section_index - 1},
                      !.currentSectionIndex = null]
       ELSE [d EXCEPT !.currentSectionIndex = null]
  ELSE d

FoldSectionComplete(d, log) ==
  IF log.action = "section_complete"
  THEN IF log.content # ""
       THEN [d EXCEPT !.generatedSections = SetSection(@, log.section_index, log.content),
                      !.expandedContent = @ \cup {log.section_index - 1},
                      !.currentSectionIndex = null]
       ELSE [d EXCEPT !.currentSectionIndex = null]
  ELSE d

\* clearInterval of the handles held: the intervals left.
Cleared(ints, agentHeld, consoleHeld) ==
  [ints EXCEPT !.agent = IF agentHeld THEN @ - 1 ELSE @,
               !.console = IF consoleHeld THEN @ - 1 ELSE @]

FoldReportCompleteAgentOnly(d, log) ==
  IF log.action = "report_complete"
  THEN [d EXCEPT !.isComplete = TRUE,
                 !.statusEmits = @ + 1,
                 !.agentLogTimer = FALSE,
                 !.intervals = Cleared(@, d.agentLogTimer, FALSE)]
  ELSE d

FoldReportComplete(d, log) ==
  IF log.action = "report_complete"
  THEN [d EXCEPT !.isComplete = TRUE,
                 !.statusEmits = @ + 1,
                 !.agentLogTimer = FALSE,
                 !.consoleLogTimer = FALSE,
                 !.intervals = Cleared(@, d.agentLogTimer, d.consoleLogTimer)]
  ELSE d

FoldReportStart(d, log) ==
  IF log.action = "report_start"
  THEN [d EXCEPT !.startTime = log.timestamp]
  ELSE d

FoldEntry(d, log) ==
  FoldReportStart(
    FoldReportComplete(
      FoldSectionComplete(
        FoldSectionStart(
          FoldOutline([d EXCEPT !.agentLogs = Append(@, log)], log), log), log), log), log)

RECURSIVE FoldLogs(_, _)
FoldLogs(d, newLogs) ==
  IF newLogs = <<>> THEN d
  ELSE FoldLogs(FoldEntry(d, Head(newLogs)), Tail(newLogs))

\* The other variant of the view (src/unnamed/part_000) folds the same
\* entries: what a planning_complete entry does to the outline it holds, and
\* the outline it holds after the entries of a log.
PartFoldOutlineOnce(outline, log) ==
  IF log.action = "planning_complete" /\ log.outline # NoOutline /\ outline = NoOutline
  THEN log.outline
  ELSE outline

PartFoldOutline(outline, log) ==
  IF log.action = "planning_complete" /\ log.outline # NoOutline
  THEN log.outline
  ELSE outline

RECURSIVE PartOutline(_)
PartOutline(logs) ==
  IF logs = <<>> THEN NoOutline
  ELSE PartFoldOutline(PartOutline(SubSeq(logs, 1, Len(logs) - 1)), logs[Len(logs)])

\* The state the fold reads and writes.
Derived ==
  [agentLogs |-> agentLogs, reportOutline |-> reportOutline,
   currentSectionIndex |-> currentSectionIndex,
   generatedSections |-> generatedSections, expandedContent |-> expandedContent,
   isComplete |-> isComplete, startTime |-> startTime, statusEmits |-> statusEmits,
   agentLogTimer |-> agentLogTimer, consoleLogTimer |-> consoleLogTimer,
   intervals |-> intervals]

NextLineNoBase(res) == Len(res.logs)

\* The cursor after a successful response that carried entries.
NextLine(res) == res.from_line + Len(res.logs)

----------------------------------------------------------------------------
\* The outlines of the model: "O1" has three sections, "O2" has an empty
\* sections list, "O3" has one section; length of
\* reportOutline.value?.sections, or undefined.
SectionsOf(outline) ==
  IF outline = "O1" THEN 3 ELSE IF outline = "O3" THEN 1 ELSE 0

\* The computed counts and percentage of the progress bar.
totalSections == SectionsOf(reportOutline)

completedSections == Cardinality(DOMAIN generatedSections)

MathFloor(num, den) == num \div den

\* Math.round(num / den) for num >= 0, den > 0: the nearest integer, a half
\* rounded up.
MathRound(num, den) == (2 * num + den) \div (2 * den)

progressPercent ==
  IF totalSections = 0 THEN 0
  ELSE MathRound(completedSections * 100, totalSections)

\* getActionLabel: labels[action] || action.  labels is an object literal, so
\* the lookup also finds the properties it inherits from Object.prototype,
\* whose values are functions (truthy).
labels ==
  [report_start |-> "Report Started",
   planning_start |-> "Planning",
   planning_complete |-> "Plan Complete",
   section_start |-> "Section Start",
   section_content |-> "Content Ready",
   subsection_content |-> "Subsection Ready",
   section_complete |-> "Section Done",
   tool_call |-> "Tool Call",
   tool_result |-> "Tool Result",
   llm_response |-> "LLM Response",
   report_complete |-> "Complete"]

ObjectPrototype ==
  {"constructor", "hasOwnProperty", "isPrototypeOf", "propertyIsEnumerable",
   "toLocaleString", "toString", "valueOf", "__proto__"}

getActionLabel(action) ==
  IF action \in DOMAIN labels THEN labels[action]
  ELSE IF action \in ObjectPrototype THEN <<"function", action>>
  ELSE action

----------------------------------------------------------------------------
\* A request in flight: the stream, the report id and the cursor it was sent
\* with, and (history) whether an earlier session sent it.  inflight is a bag:
\* several requests of one stream can carry the same cursor.
Request(s, rid, line) ==
  [stream |-> s, rid |-> rid, from |-> line, stale |-> FALSE]

InFlightOf(s) == {m \in BagToSet(inflight) : m.stream = s}

Sent(reqs) == inflight (+) reqs

Handled(m) == inflight (-) SetToBag({m})

\* The requests in flight when the session is reset belong to an earlier
\* session from then on.
Older(m) == [m EXCEPT !.stale = TRUE]

MarkStale(b) ==
  [k \in {Older(m) : m \in BagToSet(b)} |->
     CopiesIn(k, b) + CopiesIn([k EXCEPT !.stale = FALSE], b)]

\* stopPolling(): both intervals cleared.
StopPolling ==
  /\ agentLogTimer' = FALSE
  /\ consoleLogTimer' = FALSE
  /\ intervals' = Cleared(intervals, agentLogTimer, consoleLogTimer)

\* startPolling(): nothing while a timer is set; else one fetch per stream
\* (each a no-op without a report id) and both intervals.  The requests it
\* sends, given the cursors.
StartPollingRequests(rid, aLine, cLine) ==
  IF agentLogTimer \/ consoleLogTimer \/ rid = NoId THEN EmptyBag
  ELSE SetToBag({Request("agent", rid, aLine), Request("console", rid, cLine)})

StartPollingTimersUnguarded ==
  /\ agentLogTimer' = TRUE
  /\ consoleLogTimer' = TRUE
  /\ intervals' = [s \in Streams |-> intervals[s] + 1]

StartPollingTimers ==
  IF agentLogTimer \/ consoleLogTimer
  THEN UNCHANGED timers
  ELSE /\ agentLogTimer' = TRUE
       /\ consoleLogTimer' = TRUE
       /\ intervals' = [s \in Streams |-> intervals[s] + 1]

\* The session's initial value (the watcher's assignments).
ResetSession ==
  /\ agentLogs' = <<>>
  /\ consoleLogs' = <<>>
  /\ agentLogLine' = 0
  /\ consoleLogLine' = 0
  /\ reportOutline' = NoOutline
  /\ currentSectionIndex' = null
  /\ generatedSections' = <<>>
  /\ expandedContent' = {}
  /\ expandedLogs' = {}
  /\ collapsedSections' = {}
  /\ isComplete' = FALSE
  /\ startTime' = null

----------------------------------------------------------------------------
\* The extractors and the markdown renderer work on a text.  The model keeps a
\* text as its sequence of lines and a line as its form k with the numbers
\* (n, m) and texts (a, b, c) it carries; a regular expression of the source is
\* the set of forms it matches.  The forms:
\*   plain        a                        blank         (empty line)
\*   num          n. a                     bullet        - a
\*   entity       - **a** (b)              rel           - a --[b]--> c
\*   if_query     原始问题: a              if_stat_facts     相关事实: n
\*   if_stat_entities  涉及实体: n         if_stat_rels      关系链: n
\*   if_subq_h    ### 分析的子问题         if_facts_h    ### 【关键事实】
\*   if_entities_h  ### 【核心实体】       if_rels_h     ### 【关系链】
\*   pa_query     查询: a                  pa_stat_nodes     总节点数: n
\*   pa_stat_edges  总边数: n              pa_stat_active    当前有效事实: n
\*   pa_stat_hist   历史/过期事实: n       pa_active_h   ### 【当前有效事实】
\*   pa_entities_h  ### 【涉及实体】
\*   qs_query     搜索查询: a              qs_count      找到 n 条
\*   qs_facts_h   ### 相关事实:
\*   iv_topic     **采访主题:** a          iv_count      **采访人数:** n / m
\*   iv_reason_h  ### 采访对象选择理由     iv_record_h   ### 采访实录
\*   rule         ---                      iv_block_h    #### 采访 #n: a
\*   iv_namerole  **a** (b)                iv_bio        _简介: a_
\*   iv_q         **Q:** a                 iv_a          **A:** a
\*   iv_tw_h      【Twitter平台回答】      iv_rd_h       【Reddit平台回答】
\*   iv_quotes_h  **关键引言:**            quote         > "a"
\*   iv_summary_h ### 采访摘要与核心观点
Line(k, n, m, a, b, c) == [k |-> k, n |-> n, m |-> m, a |-> a, b |-> b, c |-> c]

Plain(a) == Line("plain", 0, 0, a, "", "")
Blank == Line("blank", 0, 0, "", "", "")
Num(n, a) == Line("num", n, 0, a, "", "")
Bullet(a) == Line("bullet", 0, 0, a, "", "")
EntityLine(a, b) == Line("entity", 0, 0, a, b, "")
RelLine(a, b, c) == Line("rel", 0, 0, a, b, c)
Stat(k, n) == Line(k, n, 0, "", "", "")
Titled(k, a) == Line(k, 0, 0, a, "", "")
Header(k) == Line(k, 0, 0, "", "", "")

\* The lines that contain "###".
Headers ==
  {"if_subq_h", "if_facts_h", "if_entities_h", "if_rels_h", "pa_active_h",
   "pa_entities_h", "qs_facts_h", "iv_reason_h", "iv_record_h", "iv_block_h",
   "iv_summary_h"}

\* The argument of a call: its lines, and throwsAt = 0 for a string.  A value
\* that is not a string has no match method, so the first text.match(...)
\* throws (throwsAt = 1); an object with a match method of its own can throw at
\* any later call.
Input(lines, throwsAt) == [lines |-> lines, throwsAt |-> throwsAt]

\* The call-th text.match / text.split of the try block returns.
Runs(text, call) == text.throwsAt = 0 \/ call < text.throwsAt

\* Positions of the lines of the given forms, and the first of them (0: none).
Positions(lines, forms) == {i \in 1..Len(lines) : lines[i].k \in forms}

First(lines, forms) ==
  IF Positions(lines, forms) = {} THEN 0
  ELSE CHOOSE i \in Positions(lines, forms) : \A j \in Positions(lines, forms) : i <= j

After(lines, i) == SubSeq(lines, i + 1, Len(lines))

\* array.slice(0, n)
Take(s, n) == SubSeq(s, 1, Min(n, Len(s)))

\* string.trim() of a text kept as the texts of its lines.
RECURSIVE Trim(_)
Trim(s) ==
  IF s = <<>> THEN s
  ELSE IF Head(s) = "" THEN Trim(Tail(s))
  ELSE IF s[Len(s)] = "" THEN Trim(SubSeq(s, 1, Len(s) - 1))
  ELSE s

\* string.trim() of a text kept as its lines.
RECURSIVE TrimBlank(_)
TrimBlank(ls) ==
  IF ls = <<>> THEN ls
  ELSE IF Head(ls).k = "blank" THEN TrimBlank(Tail(ls))
  ELSE IF ls[Len(ls)].k = "blank" THEN TrimBlank(SubSeq(ls, 1, Len(ls) - 1))
  ELSE ls

\* The text of a line: what it carries, or (for a marker line) the marker.
LineText(l) ==
  IF l.k \in {"plain", "num", "bullet", "iv_a", "iv_q"} THEN l.a
  ELSE IF l.k = "blank" THEN ""
  ELSE l.k

TextsOf(lines) == [i \in 1..Len(lines) |-> lines[i].a]

LineTexts(lines) == [i \in 1..Len(lines) |-> LineText(lines[i])]

NonEmpty(a) == a # ""

IsNum(l) == l.k = "num"

IsEntity(l) == l.k = "entity"

IsRel(l) == l.k = "rel"

IsQuote(l) == l.k = "quote"

SectionOrWholeText(lines, header) ==
  IF First(lines, {header}) = 0 THEN [found |-> TRUE, body |-> lines]
  ELSE [found |-> TRUE, body |-> After(lines, First(lines, {header}))]

\* text.match(/### <header>...\n([\s\S]*?)(?=###|$)/): the lines after the
\* first header line (which a line break must follow) up to the next line
\* with "###" or the end of the text.
Section(lines, header) ==
  IF First(lines, {header}) = 0 \/ First(lines, {header}) = Len(lines)
  THEN [found |-> FALSE, body |-> <<>>]
  ELSE LET rest == After(lines, First(lines, {header}))
           stop == First(rest, Headers)
       IN  [found |-> TRUE,
            body |-> IF stop = 0 THEN rest ELSE SubSeq(rest, 1, stop - 1)]

\* text.match(/<label>:\s*(\d+)/): the number of the first line of the forms.
\* "相关事实:" is also the QuickSearch facts header; there \s* runs over the
\* line break and (\d+) takes the number of a numbered line that follows.
NumberAt(lines, i) ==
  IF lines[i].k # "qs_facts_h" THEN [found |-> TRUE, n |-> lines[i].n]
  ELSE LET rest == After(lines, i)
           p == First(rest, {l.k : l \in {rest[j] : j \in 1..Len(rest)}} \ {"blank"})
       IN  IF p # 0 /\ rest[p].k = "num"
           THEN [found |-> TRUE, n |-> rest[p].n]
           ELSE [found |-> FALSE, n |-> 0]

RECURSIVE NumberMatch(_, _)
NumberMatch(lines, forms) ==
  LET i == First(lines, forms)
  IN  IF i = 0 THEN [found |-> FALSE, n |-> 0]
      ELSE IF NumberAt(lines, i).found THEN NumberAt(lines, i)
      ELSE NumberMatch(After(lines, i), forms)

\* text.match(/<label>:\s*(.+?)(?:\n|$)/): the text of the first line of the forms.
TextMatch(lines, forms) ==
  IF First(lines, forms) = 0 THEN [found |-> FALSE, a |-> ""]
  ELSE [found |-> TRUE, a |-> lines[First(lines, forms)].a]

Names(ls) == [i \in 1..Len(ls) |-> [name |-> ls[i].a, type |-> ls[i].b]]

HasName(e) == e.name # ""

----------------------------------------------------------------------------
\* The caps of the list fields.
InsightFactsCap == 10
InsightEntitiesCap == 8
InsightRelationsCap == 6
PanoramaFactsCap == 8
PanoramaEntitiesCap == 10
QuickFactsCap == 10

\* parseInsightForge.
InsightZero ==
  [query |-> "", stats |-> [facts |-> 0, entities |-> 0, relationships |-> 0],
   subQueries |-> <<>>, facts |-> <<>>, entities |-> <<>>, relations |-> <<>>]

\* entitySection[1].split(/\n- \*\*/).slice(1): a block starts at every entity
\* line of the section that has a line break before it within the section,
\* that is, at every entity line but one on the section's first line.
InsightEntityBlocks(body) ==
  IF body = <<>> THEN <<>> ELSE SelectSeq(Tail(body), IsEntity)

parseInsightForge(text) ==
  LET t == text.lines
      queryMatch == TextMatch(t, {"if_query"})
      factMatch == NumberMatch(t, {"if_stat_facts", "qs_facts_h"})
      entityMatch == NumberMatch(t, {"if_stat_entities"})
      relMatch == NumberMatch(t, {"if_stat_rels"})
      subQSection == Section(t, "if_subq_h")
      factsSection == Section(t, "if_facts_h")
      entitySection == Section(t, "if_entities_h")
      relSection == Section(t, "if_rels_h")
      r0 == InsightZero
      r1 == IF Runs(text, 1) /\ queryMatch.found
            THEN [r0 EXCEPT !.query = queryMatch.a] ELSE r0
      r2 == IF Runs(text, 4)
            THEN [r1 EXCEPT !.stats =
                    [facts |-> IF factMatch.found THEN factMatch.n ELSE 0,
                     entities |-> IF entityMatch.found THEN entityMatch.n ELSE 0,
                     relationships |-> IF relMatch.found THEN relMatch.n ELSE 0]]
            ELSE r1
      r3 == IF Runs(text, 5) /\ subQSection.found
            THEN [r2 EXCEPT !.subQueries = TextsOf(SelectSeq(subQSection.body, IsNum))]
            ELSE r2
      r4 == IF Runs(text, 6) /\ factsSection.found
            THEN [r3 EXCEPT !.facts =
                    Take(TextsOf(SelectSeq(factsSection.body, IsNum)), InsightFactsCap)]
            ELSE r3
      r5 == IF Runs(text, 7) /\ entitySection.found
            THEN [r4 EXCEPT !.entities =
                    Take(SelectSeq(Names(InsightEntityBlocks(entitySection.body)), HasName),
                         InsightEntitiesCap)]
            ELSE r4
      r6 == IF Runs(text, 8) /\ relSection.found
            THEN [r5 EXCEPT !.relations =
                    Take([i \in 1..Len(SelectSeq(relSection.body, IsRel)) |->
                            LET l == SelectSeq(relSection.body, IsRel)[i]
                            IN  [source |-> l.a, relation |-> l.b, target |-> l.c]],
                         InsightRelationsCap)]
            ELSE r5
  IN  r6

\* parsePanorama.  /查询:\s*(.+?)/ also matches a "搜索查询:" line.
PanoramaZero ==
  [query |-> "",
   stats |-> [nodes |-> 0, edges |-> 0, activeFacts |-> 0, historicalFacts |-> 0],
   activeFacts |-> <<>>, historicalFacts |-> <<>>, entities |-> <<>>]

parsePanorama(text) ==
  LET t == text.lines
      queryMatch == TextMatch(t, {"pa_query", "qs_query"})
      nodesMatch == NumberMatch(t, {"pa_stat_nodes"})
      edgesMatch == NumberMatch(t, {"pa_stat_edges"})
      activeMatch == NumberMatch(t, {"pa_stat_active"})
      histMatch == NumberMatch(t, {"pa_stat_hist"})
      activeSection == Section(t, "pa_active_h")
      entitySection == Section(t, "pa_entities_h")
      r0 == PanoramaZero
      r1 == IF Runs(text, 1) /\ queryMatch.found
            THEN [r0 EXCEPT !.query = queryMatch.a] ELSE r0
      r2 == IF Runs(text, 5)
            THEN [r1 EXCEPT !.stats =
                    [nodes |-> IF nodesMatch.found THEN nodesMatch.n ELSE 0,
                     edges |-> IF edgesMatch.found THEN edgesMatch.n ELSE 0,
                     activeFacts |-> IF activeMatch.found THEN activeMatch.n ELSE 0,
                     historicalFacts |-> IF histMatch.found THEN histMatch.n ELSE 0]]
            ELSE r1
      r3 == IF Runs(text, 6) /\ activeSection.found
            THEN [r2 EXCEPT !.activeFacts =
                    Take(TextsOf(SelectSeq(activeSection.body, IsNum)), PanoramaFactsCap)]
            ELSE r2
      r4 == IF Runs(text, 7) /\ entitySection.found
            THEN [r3 EXCEPT !.entities =
                    Take(Names(SelectSeq(entitySection.body, IsEntity)), PanoramaEntitiesCap)]
            ELSE r3
  IN  r4

\* parseQuickSearch.  The facts section runs to the end of the text.
QuickSearchZero == [query |-> "", count |-> 0, facts |-> <<>>]

parseQuickSearch(text) ==
  LET t == text.lines
      queryMatch == TextMatch(t, {"qs_query"})
      countMatch == NumberMatch(t, {"qs_count"})
      factsSection == First(t, {"qs_facts_h"})
      r0 == QuickSearchZero
      r1 == IF Runs(text, 1) /\ queryMatch.found
            THEN [r0 EXCEPT !.query = queryMatch.a] ELSE r0
      r2 == IF Runs(text, 2) /\ countMatch.found
            THEN [r1 EXCEPT !.count = countMatch.n] ELSE r1
      r3 == IF Runs(text, 3) /\ factsSection # 0 /\ factsSection < Len(t)
            THEN [r2 EXCEPT !.facts =
                    Take(TextsOf(SelectSeq(After(t, factsSection), IsNum)), QuickFactsCap)]
            ELSE r2
  IN  r3

\* parseInterview.
InterviewZero ==
  [topic |-> "", agentCount |-> <<>>, successCount |-> 0, totalCount |-> 0,
   selectionReason |-> <<>>, interviews |-> <<>>, summary |-> <<>>]

\* /### 采访对象选择理由\n([\s\S]*?)(?=\n---\n|\n### 采访实录)/: the lines
\* after the header up to a "---" line that a line break follows or the
\* "### 采访实录" header; no match when neither comes.
ReasonMatch(t) ==
  LET h == First(t, {"iv_reason_h"})
      ends == {j \in h + 2..Len(t) :
                 t[j].k = "iv_record_h" \/ (t[j].k = "rule" /\ j < Len(t))}
  IN  IF h = 0 \/ ends = {} THEN [found |-> FALSE, a |-> <<>>]
      ELSE [found |-> TRUE,
            a |-> Trim(LineTexts(SubSeq(t, h + 1,
                         (CHOOSE j \in ends : \A k \in ends : j <= k) - 1)))]

\* text.split(/#### 采访 #\d+:/).slice(1): a block is the rest of a record
\* header line (the title) and the lines up to the next record header.
BlockStarts(t) ==
  SelectSeq([i \in 1..Len(t) |-> i], LAMBDA i : t[i].k = "iv_block_h")

Block(t, j) ==
  [h |-> t[BlockStarts(t)[j]],
   body |-> SubSeq(t, BlockStarts(t)[j] + 1,
                   IF j < Len(BlockStarts(t)) THEN BlockStarts(t)[j + 1] - 1 ELSE Len(t)),
   last |-> j = Len(BlockStarts(t))]

\* The body of interviewBlocks.forEach.  A question is kept as the text of
\* its first line, an answer as its lines (answerMatch[1] starts with what
\* follows "**A:**" on its line).
Interview(block, index) ==
  LET body == block.body
      \* a line break follows the i-th line of the block
      Broken(i) == i < Len(body) \/ ~block.last
      titleMatch == block.h.a # "" /\ Broken(0)
      nameRoleMatch == First(body, {"iv_namerole", "entity"})
      bioMatch == First(body, {"iv_bio"})
      q == First(body, {"iv_q"})
      qEnd == IF q = 0 THEN 0 ELSE First(After(body, q), {"iv_a"})
      a == First(body, {"iv_a"})
      answerLines ==
        IF a = 0 THEN <<>>
        ELSE LET rest == SubSeq(body, a, Len(body))
                 stop == First(rest, {"iv_quotes_h"})
             IN  IF stop = 0 THEN rest ELSE SubSeq(rest, 1, stop - 1)
      answerText ==
        IF answerLines = <<>> THEN <<>>
        ELSE TrimBlank((IF Head(answerLines).a = "" THEN <<>>
                        ELSE <<Plain(Head(answerLines).a)>>) \o Tail(answerLines))
      tw == First(answerLines, {"iv_tw_h"})
      rd == First(answerLines, {"iv_rd_h"})
      twitterText ==
        LET rest == After(answerLines, tw)
            stop == First(rest, {"iv_rd_h"})
        IN  IF stop = 0 THEN rest ELSE SubSeq(rest, 1, stop - 1)
      quotesMatch == First(body, {"iv_quotes_h"})
      quotesText ==
        LET rest == After(body, quotesMatch)
            stop == First(rest, {"rule", "iv_block_h"})
        IN  IF stop = 0 THEN rest ELSE SubSeq(rest, 1, stop - 1)
  IN  [num |-> index,
       title |-> IF titleMatch THEN block.h.a ELSE "",
       name |-> IF nameRoleMatch # 0 THEN body[nameRoleMatch].a ELSE "",
       role |-> IF nameRoleMatch # 0 THEN body[nameRoleMatch].b ELSE "",
       bio |-> IF bioMatch # 0 /\ Broken(bioMatch) THEN body[bioMatch].a ELSE "",
       questions |->
         IF q = 0 \/ qEnd = 0 THEN <<>>
         ELSE SelectSeq(<<body[q].a>>
                          \o TextsOf(SelectSeq(SubSeq(body, q + 1, q + qEnd - 1), IsNum)),
                        NonEmpty),
       twitterAnswer |->
         IF a = 0 THEN <<>>
         ELSE IF tw # 0 THEN TrimBlank(twitterText)
         ELSE IF rd # 0 THEN <<>>
         ELSE answerText,
       redditAnswer |->
         IF a = 0 \/ rd = 0 THEN <<>>
         ELSE TrimBlank(After(answerLines, rd)),
       quotes |->
         IF quotesMatch = 0 \/ ~Broken(quotesMatch) THEN <<>>
         ELSE TextsOf(SelectSeq(quotesText, IsQuote))]

Identified(interview) == interview.name # "" \/ interview.title # ""

parseInterview(text) ==
  LET t == text.lines
      topicMatch == TextMatch(t, {"iv_topic"})
      countMatch == First(t, {"iv_count"})
      reasonMatch == ReasonMatch(t)
      summaryMatch == First(t, {"iv_summary_h"})
      r0 == InterviewZero
      r1 == IF Runs(text, 1) /\ topicMatch.found
            THEN [r0 EXCEPT !.topic = topicMatch.a] ELSE r0
      r2 == IF Runs(text, 2) /\ countMatch # 0
            THEN [r1 EXCEPT !.successCount = t[countMatch].n,
                            !.totalCount = t[countMatch].m,
                            !.agentCount = <<t[countMatch].n, t[countMatch].m>>]
            ELSE r1
      r3 == IF Runs(text, 3) /\ reasonMatch.found
            THEN [r2 EXCEPT !.selectionReason = reasonMatch.a] ELSE r2
      r4 == IF Runs(text, 4)
            THEN [r3 EXCEPT !.interviews =
                    SelectSeq([j \in 1..Len(BlockStarts(t)) |-> Interview(Block(t, j), j)],
                              Identified)]
            ELSE r3
      r5 == IF Runs(text, 5) /\ summaryMatch # 0 /\ summaryMatch < Len(t)
            THEN [r4 EXCEPT !.summary = Trim(LineTexts(After(t, summaryMatch)))]
            ELSE r4
  IN  r5

----------------------------------------------------------------------------
\* InterviewDisplay.  platformTabs is empty until the user picks a platform.
platformTabs == <<>>

getPlatformTab(agentIdx, qIdx) ==
  IF <<agentIdx, qIdx>> \in DOMAIN platformTabs THEN platformTabs[<<agentIdx, qIdx>>]
  ELSE "twitter"

\* A line that starts with the enumeration marker of question k ("k. ", "k、",
\* "（k）" or "(k)").
IsMarker(l, k) == l.k = "num" /\ l.n = k

\* remaining.match(nextPattern): the first line with a line break before it
\* that starts with the marker of nextNum (0: none).  The marker "k." is to be
\* followed by white space, which the end of the text is not.
NextMarker(remaining, nextNum) ==
  LET at == {j \in 2..Len(remaining) :
               /\ IsMarker(remaining[j], nextNum)
               /\ (remaining[j].a # "" \/ j < Len(remaining))}
  IN  IF at = {} THEN 0 ELSE CHOOSE j \in at : \A k \in at : j <= k

\* currentPart.replace(/^\s*i\.\s*|.../, '').trim()
StripMarker(part, i) ==
  IF part # <<>> /\ IsMarker(part[1], i)
  THEN TrimBlank((IF part[1].a = "" THEN <<>> ELSE <<Plain(part[1].a)>>) \o Tail(part))
  ELSE part

\* The for loop of splitAnswerByQuestions from question i on.
RECURSIVE SplitFrom(_, _, _, _)
SplitFrom(remaining, i, questionCount, parts) ==
  IF i > questionCount THEN parts
  ELSE LET j == NextMarker(remaining, i + 1)
       IN  IF j # 0
           THEN SplitFrom(SubSeq(remaining, j, Len(remaining)), i + 1, questionCount,
                          Append(parts,
                                 StripMarker(TrimBlank(SubSeq(remaining, 1, j - 1)), i)))
           ELSE IF i = questionCount
           THEN SplitFrom(remaining, i + 1, questionCount,
                          Append(parts, StripMarker(remaining, i)))
           ELSE SplitFrom(remaining, i + 1, questionCount, parts)

splitAnswerByQuestions(answerText, questionCount) ==
  IF answerText = <<>> \/ questionCount <= 0 THEN <<answerText>>
  ELSE LET parts == SplitFrom(answerText, 1, questionCount, <<>>)
       IN  IF parts = <<>> \/ \A p \in 1..Len(parts) : parts[p] = <<>>
           THEN <<answerText>>
           ELSE parts

getAnswerForQuestion(interview, qIdx, platform) ==
  LET answer == IF platform = "twitter" THEN interview.twitterAnswer
                ELSE IF interview.redditAnswer # <<>> THEN interview.redditAnswer
                ELSE interview.twitterAnswer
      questionCount == IF Len(interview.questions) = 0 THEN 1 ELSE Len(interview.questions)
      answers == splitAnswerByQuestions(answer, questionCount)
  IN  IF answer = <<>> THEN <<>>
      ELSE IF Len(answers) = 1 \/ qIdx >= Len(answers)
      THEN IF qIdx = 0 THEN answer ELSE <<>>
      ELSE answers[qIdx + 1]

hasMultiplePlatforms(interview, qIdx) ==
  /\ interview.twitterAnswer # <<>>
  /\ interview.redditAnswer # <<>>
  /\ getAnswerForQuestion(interview, qIdx, "twitter") # <<>>
  /\ getAnswerForQuestion(interview, qIdx, "reddit") # <<>>
  /\ getAnswerForQuestion(interview, qIdx, "twitter")
       # getAnswerForQuestion(interview, qIdx, "reddit")

\* The question and answer thread of the interview of tab activeIndex: per
\* question (one placeholder when there is none) the answer shown and whether
\* the platform switch is shown.
qaThread(interview, activeIndex) ==
  [q \in 1..(IF Len(interview.questions) = 0 THEN 1 ELSE Len(interview.questions)) |->
     [answerText |-> getAnswerForQuestion(interview, q - 1, getPlatformTab(activeIndex, q - 1)),
      hasDualPlatform |-> hasMultiplePlatforms(interview, q - 1)]]

InterviewDisplay(result) ==
  [i \in 1..Len(result.interviews) |->
     [interview |-> result.interviews[i], thread |-> qaThread(result.interviews[i], i - 1)]]

----------------------------------------------------------------------------
\* renderMarkdown, on texts without inline markup or code blocks.  The markup
\* is kept as a sequence of elements; while the passes run it is kept line by
\* line, since the patterns of the block passes do not cross a line break.
El(tag, items) == [tag |-> tag, items |-> items]

ListForms == {"bullet", "entity", "rel"}

\* The heading, quote and list-item passes: what a line has become after
\* html.replace(/^- (.+)$/gm, '<li class="md-li">$1</li>').
BlockOf(l) ==
  IF l.k \in Headers THEN <<El("h", <<LineText(l)>>)>>
  ELSE IF l.k = "quote" THEN <<El("blockquote", <<l.a>>)>>
  ELSE IF l.k \in ListForms THEN <<El("li", <<l.a>>)>>
  ELSE IF l.k = "blank" THEN <<>>
  ELSE <<El("line", <<l>>)>>

\* html.replace(/(<li class="md-li">[\s\S]*?<\/li>)(\s*<li)/g, '$1$2'): both
\* groups are put back, the white space between two items is part of $2, so
\* the markup is what it was and the items stay on their lines.
KeepItemLines(rows) == rows

\* html.replace(/(<li class="md-li">.*<\/li>)+/g, '<ul class="md-ul">$&</ul>'):
\* "." stops at a line break, so the items of one line get one container.
WrapItems(row) ==
  IF row # <<>> /\ row[1].tag = "li"
  THEN <<El("ul", [i \in 1..Len(row) |-> row[i].items[1]])>>
  ELSE row

\* The ordered-list, rule and text passes on one line.
FinishLine(row) ==
  IF row # <<>> /\ row[1].tag = "line"
  THEN LET l == row[1].items[1]
       IN  IF l.k = "num" THEN <<El("ol", <<l.a>>)>>
           ELSE IF l.k = "rule" THEN <<El("hr", <<>>)>>
           ELSE <<El("text", <<LineText(l)>>)>>
  ELSE row

\* k line breaks in a row: each pair becomes a paragraph break, one left
\* over becomes <br>.
RECURSIVE Breaks(_)
Breaks(k) ==
  IF k >= 2 THEN <<El("/p", <<>>), El("p", <<>>)>> \o Breaks(k - 2)
  ELSE IF k = 1 THEN <<El("br", <<>>)>>
  ELSE <<>>

\* The lines put together again, k line breaks pending before the first.
RECURSIVE JoinLines(_, _)
JoinLines(rows, k) ==
  IF rows = <<>> THEN Breaks(k)
  ELSE IF Len(rows) = 1 THEN Breaks(k) \o rows[1]
  ELSE IF rows[1] = <<>> THEN JoinLines(Tail(rows), k + 1)
  ELSE Breaks(k) \o rows[1] \o JoinLines(Tail(rows), 1)

\* html.replace(/<p class="md-p"><\/p>/g, '')
RECURSIVE DropEmptyParagraphs(_)
DropEmptyParagraphs(h) ==
  IF Len(h) < 2 THEN h
  ELSE IF h[1].tag = "p" /\ h[2].tag = "/p" THEN DropEmptyParagraphs(Tail(Tail(h)))
  ELSE <<h[1]>> \o DropEmptyParagraphs(Tail(h))

\* html.replace(/<p class="md-p">(<ul|<ol|...)/g, '$1')
DropOpenBefore(h, tags) ==
  SelectSeq([i \in 1..Len(h) |-> [el |-> h[i], drop |-> h[i].tag = "p" /\ i < Len(h) /\ h[i + 1].tag \in tags]],
            LAMBDA x : ~x.drop)

\* html.replace(/(<\/ul>|<\/ol>|...)<\/p>/g, '$1')
DropCloseAfter(h, tags) ==
  SelectSeq([i \in 1..Len(h) |-> [el |-> h[i], drop |-> h[i].tag = "/p" /\ i > 1 /\ h[i - 1].tag \in tags]],
            LAMBDA x : ~x.drop)

Elements(marked) == [i \in 1..Len(marked) |-> marked[i].el]

renderMarkdown(content) ==
  IF content.lines = <<>> THEN <<>>
  ELSE
    LET rows == KeepItemLines([i \in 1..Len(content.lines) |-> BlockOf(content.lines[i])])
        done == [i \in 1..Len(rows) |-> FinishLine(WrapItems(rows[i]))]
        html == <<El("p", <<>>)>> \o JoinLines(done, 0) \o <<El("/p", <<>>)>>
        c1 == DropEmptyParagraphs(html)
        c2 == Elements(DropOpenBefore(c1, {"h"}))
        c3 == Elements(DropCloseAfter(c2, {"h"}))
        c4 == Elements(DropOpenBefore(c3, {"ul", "ol", "blockquote", "hr"}))
        c5 == Elements(DropCloseAfter(c4, {"ul", "ol", "blockquote"}))
    IN  c5

\* Before any call.
NoOutput == [fn |-> "none", value |-> <<>>]

NoCalls ==
  /\ input = Input(<<>>, 0)
  /\ output = NoOutput

----------------------------------------------------------------------------
\* The logs the endpoints hold in the polling scenario.
AgentLogOf(rid) ==
  IF rid = "A"
  THEN <<Entry("tool_result", null, NoOutline, "", 1),
         Entry("section_complete", 1, NoOutline, "Body", 2),
         Entry("report_complete", null, NoOutline, "", 3)>>
  ELSE <<Entry("section_start", 2, NoOutline, "", 4)>>

ConsoleLogOf(rid) ==
  IF rid = "A" THEN <<"INFO a1", "ERROR a2">> ELSE <<"INFO b1">>

\* The state after setup: the refs' initial values, then the immediate run of
\* the reportId watcher (reset and startPolling when a report id is given).
InitComponent(rid) ==
  /\ reportId = rid
  /\ phase = "created"
  /\ agentLogs = <<>>
  /\ consoleLogs = <<>>
  /\ agentLogLine = 0
  /\ consoleLogLine = 0
  /\ reportOutline = NoOutline
  /\ currentSectionIndex = null
  /\ generatedSections = <<>>
  /\ expandedContent = {}
  /\ expandedLogs = {}
  /\ collapsedSections = {}
  /\ isComplete = FALSE
  /\ startTime = null
  /\ showRawResult = <<>>
  /\ agentLogTimer = (rid # NoId)
  /\ consoleLogTimer = (rid # NoId)
  /\ intervals = [s \in Streams |-> IF rid # NoId THEN 1 ELSE 0]
  /\ inflight = IF rid = NoId THEN EmptyBag
                ELSE SetToBag({Request("agent", rid, 0), Request("console", rid, 0)})
  /\ polls = IF rid = NoId THEN 0 ELSE 2
  /\ statusEmits = 0
  /\ polled = [s \in Streams |-> <<>>]
  /\ serial = [s \in Streams |-> TRUE]
  /\ failed = {}
  /\ visited = IF rid = NoId THEN {} ELSE {rid}
  /\ idle = {}

Init ==
  /\ \E rid \in {"A", NoId} : InitComponent(rid)
  /\ NoCalls
  /\ serverAgent = [rid \in Ids |-> AgentLogOf(rid)]
  /\ serverConsole = [rid \in Ids |-> ConsoleLogOf(rid)]

----------------------------------------------------------------------------
\* onMounted: startPolling() when a report id is given.  The hook runs in the
\* task that created the component, before any timer or response is handled.
Mount ==
  /\ phase = "created"
  /\ phase' = "mounted"
  /\ IF reportId # NoId
     THEN /\ inflight' = Sent(StartPollingRequests(reportId, agentLogLine, consoleLogLine))
          /\ polls' = polls + BagCardinality(StartPollingRequests(reportId, agentLogLine, consoleLogLine))
          /\ StartPollingTimers
     ELSE UNCHANGED <<timers, inflight, polls>>
  /\ UNCHANGED <<reportId, session, showRawResult, statusEmits, server, calls, history>>

\* onUnmounted: stopPolling().
Unmount ==
  /\ phase = "mounted"
  /\ phase' = "unmounted"
  /\ StopPolling
  /\ UNCHANGED <<reportId, session, showRawResult, inflight, polls, statusEmits,
                 server, calls, history>>

\* The parent changes the reportId prop; the watcher runs before anything else
\* is handled.  A non-empty id resets the session and calls startPolling().
ChangeReportId ==
  \E newId \in (Ids \cup {NoId}) \ {reportId} :
    /\ phase = "mounted"
    /\ polls + BagCardinality(StartPollingRequests(newId, 0, 0)) <= MaxPolls
    /\ reportId' = newId
    /\ IF newId # NoId
       THEN /\ ResetSession
            /\ inflight' = MarkStale(inflight) (+) StartPollingRequests(newId, 0, 0)
            /\ polls' = polls + BagCardinality(StartPollingRequests(newId, 0, 0))
            /\ StartPollingTimers
            /\ polled' = [s \in Streams |-> <<>>]
            /\ serial' = [s \in Streams |-> InFlightOf(s) = {}]
            /\ visited' = visited \cup {newId}
            /\ idle' = {}
       ELSE UNCHANGED <<session, timers, inflight, polls, polled, serial, visited, idle>>
    /\ UNCHANGED <<phase, showRawResult, statusEmits, server, calls, failed>>

AgentTickAlwaysFetches ==
  /\ phase # "created"
  /\ agentLogTimer
  /\ polls < MaxPolls
  /\ inflight' = Sent(SetToBag({Request("agent", reportId, agentLogLine)}))
  /\ polls' = polls + 1
  /\ serial' = [serial EXCEPT !.agent = @ /\ InFlightOf("agent") = {}]
  /\ idle' = IF reportId = NoId THEN idle \cup {"agent"} ELSE idle
  /\ UNCHANGED <<reportId, phase, session, showRawResult, timers, statusEmits,
                 server, calls, polled, failed, visited>>

\* An agent interval tick: fetchAgentLog() up to its await.
AgentTick ==
  /\ phase # "created"
  /\ agentLogTimer
  /\ polls < MaxPolls
  /\ IF reportId = NoId
     THEN /\ idle' = idle \cup {"agent"}
          /\ UNCHANGED <<inflight, polls, serial>>
     ELSE /\ inflight' = Sent(SetToBag({Request("agent", reportId, agentLogLine)}))
          /\ polls' = polls + 1
          /\ serial' = [serial EXCEPT !.agent = @ /\ InFlightOf("agent") = {}]
          /\ UNCHANGED idle
  /\ UNCHANGED <<reportId, phase, session, showRawResult, timers, statusEmits,
                 server, calls, polled, failed, visited>>

\* A console interval tick: fetchConsoleLog() up to its await.
ConsoleTick ==
  /\ phase # "created"
  /\ consoleLogTimer
  /\ polls < MaxPolls
  /\ IF reportId = NoId
     THEN /\ idle' = idle \cup {"console"}
          /\ UNCHANGED <<inflight, polls, serial>>
     ELSE /\ inflight' = Sent(SetToBag({Request("console", reportId, consoleLogLine)}))
          /\ polls' = polls + 1
          /\ serial' = [serial EXCEPT !.console = @ /\ InFlightOf("console") = {}]
          /\ UNCHANGED idle
  /\ UNCHANGED <<reportId, phase, session, showRawResult, timers, statusEmits,
                 server, calls, polled, failed, visited>>

\* The counts (those above 0) of a stream's polls, kept while they are handled
\* one after another in the session that sent them.
Polled(s, m, n) ==
  IF serial[s] /\ ~m.stale
  THEN [polled EXCEPT ![s] = IF n > 0 THEN Append(@, n) ELSE @]
  ELSE [polled EXCEPT ![s] = <<>>]

\* fetchAgentLog() after its await, the response carrying data.
AgentResponseOf(m, res) ==
  LET d == IF Len(res.logs) > 0 THEN FoldLogs(Derived, res.logs) ELSE Derived
  IN  /\ phase # "created"
      /\ inflight' = Handled(m)
      /\ agentLogs' = d.agentLogs
      /\ reportOutline' = d.reportOutline
      /\ currentSectionIndex' = d.currentSectionIndex
      /\ generatedSections' = d.generatedSections
      /\ expandedContent' = d.expandedContent
      /\ isComplete' = d.isComplete
      /\ startTime' = d.startTime
      /\ statusEmits' = d.statusEmits
      /\ agentLogTimer' = d.agentLogTimer
      /\ consoleLogTimer' = d.consoleLogTimer
      /\ intervals' = d.intervals
      /\ agentLogLine' = IF Len(res.logs) > 0 THEN NextLine(res) ELSE agentLogLine
      /\ polled' = Polled("agent", m, Len(res.logs))
      /\ serial' = [serial EXCEPT !.agent = @ /\ ~m.stale]
      /\ UNCHANGED <<reportId, phase, consoleLogs, consoleLogLine, expandedLogs,
                     collapsedSections, showRawResult, polls, server, calls, failed, visited, idle>>

AgentResponse ==
  \E m \in InFlightOf("agent") :
    \E upTo \in Min(m.from, Len(serverAgent[m.rid])) .. Len(serverAgent[m.rid]) :
      AgentResponseOf(m, GetLog(serverAgent[m.rid], m.from, upTo))

AgentFailureStops ==
  \E m \in InFlightOf("agent") :
    /\ phase # "created"
    /\ inflight' = Handled(m)
    /\ failed' = failed \cup {"agent"}
    /\ StopPolling
    /\ UNCHANGED <<reportId, phase, session, showRawResult, polls, statusEmits,
                   server, calls, polled, serial, visited, idle>>

\* fetchAgentLog() after its await, the call rejected or the response without
\* success or data: the catch logs a warning.
AgentFailure ==
  \E m \in InFlightOf("agent"), o \in Outcomes \ {"ok"} :
    /\ phase # "created"
    /\ inflight' = Handled(m)
    /\ failed' = failed \cup {"agent"}
    /\ UNCHANGED <<reportId, phase, session, showRawResult, timers, polls,
                   statusEmits, server, calls, polled, serial, visited, idle>>

ConsoleResponseSharedCursor(m, res) ==
  /\ phase # "created"
  /\ inflight' = Handled(m)
  /\ consoleLogs' = IF Len(res.logs) > 0 THEN consoleLogs \o res.logs ELSE consoleLogs
  /\ consoleLogLine' = IF Len(res.logs) > 0 THEN NextLine(res) ELSE consoleLogLine
  /\ agentLogLine' = IF Len(res.logs) > 0 THEN NextLine(res) ELSE agentLogLine
  /\ polled' = Polled("console", m, Len(res.logs))
  /\ serial' = [serial EXCEPT !.console = @ /\ ~m.stale]
  /\ UNCHANGED <<reportId, phase, agentLogs, reportOutline,
                 currentSectionIndex, generatedSections, expandedContent, expandedLogs,
                 collapsedSections, isComplete, startTime, showRawResult, timers, polls,
                 statusEmits, server, calls, failed, visited, idle>>

\* fetchConsoleLog() after its await, the response carrying data.
ConsoleResponseOf(m, res) ==
  /\ phase # "created"
  /\ inflight' = Handled(m)
  /\ consoleLogs' = IF Len(res.logs) > 0 THEN consoleLogs \o res.logs ELSE consoleLogs
  /\ consoleLogLine' = IF Len(res.logs) > 0 THEN NextLine(res) ELSE consoleLogLine
  /\ polled' = Polled("console", m, Len(res.logs))
  /\ serial' = [serial EXCEPT !.console = @ /\ ~m.stale]
  /\ UNCHANGED <<reportId, phase, agentLogs, agentLogLine, reportOutline,
                 currentSectionIndex, generatedSections, expandedContent, expandedLogs,
                 collapsedSections, isComplete, startTime, showRawResult, timers, polls,
                 statusEmits, server, calls, failed, visited, idle>>

ConsoleResponse ==
  \E m \in InFlightOf("console") :
    \E upTo \in Min(m.from, Len(serverConsole[m.rid])) .. Len(serverConsole[m.rid]) :
      ConsoleResponseOf(m, GetLog(serverConsole[m.rid], m.from, upTo))

\* fetchConsoleLog() after its await, failing.
ConsoleFailure ==
  \E m \in InFlightOf("console"), o \in Outcomes \ {"ok"} :
    /\ phase # "created"
    /\ inflight' = Handled(m)
    /\ failed' = failed \cup {"console"}
    /\ UNCHANGED <<reportId, phase, session, showRawResult, timers, polls,
                   statusEmits, server, calls, polled, serial, visited, idle>>

\* The user clicks the raw/structured button of a tool_result entry shown in
\* the timeline.
ToggleRawResult ==
  \E i \in 1..Len(agentLogs) :
    /\ phase = "mounted"
    /\ agentLogs[i].action = "tool_result"
    /\ LET t == agentLogs[i].timestamp
       IN  showRawResult' =
             [k \in DOMAIN showRawResult \cup {t} |->
                IF k = t THEN ~(t \in DOMAIN showRawResult /\ showRawResult[t])
                ELSE showRawResult[k]]
    /\ UNCHANGED <<reportId, session, phase, timers, inflight, polls, statusEmits,
                   server, calls, history>>

Next ==
  \/ Mount
  \/ Unmount
  \/ ChangeReportId
  \/ AgentTick
  \/ ConsoleTick
  \/ AgentResponse
  \/ AgentFailure
  \/ ConsoleResponse
  \/ ConsoleFailure
  \/ ToggleRawResult

Spec == Init /\ [][Next]_vars

----------------------------------------------------------------------------
\* Retrying: one report, each timer firing again once the previous request of
\* its stream has been handled.  The interval keeps firing, and the endpoint
\* eventually answers a request with everything it holds.
AgentPollOnce ==
  /\ phase # "created"
  /\ agentLogTimer
  /\ reportId # NoId
  /\ InFlightOf("agent") = {}
  /\ inflight' = Sent(SetToBag({Request("agent", reportId, agentLogLine)}))
  /\ agentLogTimer' = FALSE
  /\ intervals' = Cleared(intervals, TRUE, FALSE)
  /\ UNCHANGED <<reportId, phase, session, showRawResult, consoleLogTimer, polls,
                 statusEmits, server, calls, history>>

AgentPoll ==
  /\ phase # "created"
  /\ agentLogTimer
  /\ reportId # NoId
  /\ InFlightOf("agent") = {}
  /\ inflight' = Sent(SetToBag({Request("agent", reportId, agentLogLine)}))
  /\ UNCHANGED <<reportId, phase, session, showRawResult, timers, polls, statusEmits,
                 server, calls, history>>

ConsolePoll ==
  /\ phase # "created"
  /\ consoleLogTimer
  /\ reportId # NoId
  /\ InFlightOf("console") = {}
  /\ inflight' = Sent(SetToBag({Request("console", reportId, consoleLogLine)}))
  /\ UNCHANGED <<reportId, phase, session, showRawResult, timers, polls, statusEmits,
                 server, calls, history>>

\* The endpoint answers with every entry it holds from the cursor on.
AgentAnswer ==
  \E m \in InFlightOf("agent") :
    AgentResponseOf(m, GetLog(serverAgent[m.rid], m.from, Len(serverAgent[m.rid])))

InitRetry ==
  /\ \E rid \in Ids : InitComponent(rid)
  /\ NoCalls
  /\ serverAgent = [rid \in Ids |-> AgentLogOf(rid)]
  /\ serverConsole = [rid \in Ids |-> ConsoleLogOf(rid)]

NextRetry ==
  \/ Mount
  \/ AgentPoll
  \/ AgentResponse
  \/ AgentFailure
  \/ ConsolePoll
  \/ ConsoleResponse
  \/ ConsoleFailure

SpecRetry ==
  /\ InitRetry
  /\ [][NextRetry]_vars
  /\ WF_vars(Mount)
  /\ WF_vars(AgentPoll)
  /\ SF_vars(AgentAnswer)

\* The console endpoint answers with every line it holds from the cursor on.
ConsoleAnswer ==
  \E m \in InFlightOf("console") :
    ConsoleResponseOf(m, GetLog(serverConsole[m.rid], m.from, Len(serverConsole[m.rid])))

\* Retrying on both streams: each interval keeps firing while it is set, and
\* each endpoint eventually answers a request with everything it holds.
SpecDrain ==
  /\ InitRetry
  /\ [][NextRetry]_vars
  /\ WF_vars(Mount)
  /\ WF_vars(AgentPoll)
  /\ SF_vars(AgentAnswer)
  /\ WF_vars(ConsolePoll)
  /\ SF_vars(ConsoleAnswer)

----------------------------------------------------------------------------
\* The fold over every entry stream: one report, whose agent log the workflow
\* engine writes entry by entry while the view polls it, one request at a time.
FoldEntries ==
  {Entry("planning_complete", null, "O1", "", 1),
   Entry("planning_complete", null, "O2", "", 1),
   Entry("planning_complete", null, NoOutline, "", 1),
   Entry("section_start", 1, NoOutline, "", 1),
   Entry("section_start", 2, NoOutline, "", 1),
   Entry("section_content", 1, NoOutline, "Draft", 1),
   Entry("subsection_content", 1, NoOutline, "Draft", 1),
   Entry("section_complete", 1, NoOutline, "Body", 1),
   Entry("section_complete", 2, NoOutline, "Other", 1),
   Entry("section_complete", 1, NoOutline, "", 1),
   Entry("report_start", null, NoOutline, "", 2),
   Entry("report_complete", null, NoOutline, "", 1),
   Entry("custom_event", null, NoOutline, "", 1),
   Entry("toString", null, NoOutline, "", 1)}

\* The workflow engine appends an entry to the report's agent log.
WriteAgentLog ==
  \E e \in FoldEntries :
    /\ reportId # NoId
    /\ Len(serverAgent[reportId]) < MaxLog
    /\ serverAgent' = [serverAgent EXCEPT ![reportId] = Append(@, e)]
    /\ UNCHANGED <<reportId, phase, session, showRawResult, timers, inflight, polls,
                   statusEmits, serverConsole, history, calls>>

InitFold ==
  /\ InitComponent("A")
  /\ NoCalls
  /\ serverAgent = [rid \in Ids |-> <<>>]
  /\ serverConsole = [rid \in Ids |-> <<>>]

NextFold ==
  \/ Mount
  \/ WriteAgentLog
  \/ AgentPoll
  \/ AgentResponse

SpecFold == InitFold /\ [][NextFold]_vars

----------------------------------------------------------------------------
\* One session of one report: the intervals fire whether or not a request of
\* their stream is still in flight, and a response is handled whenever it
\* arrives.
InitOverlap ==
  /\ InitComponent("A")
  /\ NoCalls
  /\ serverAgent = [rid \in Ids |-> AgentLogOf(rid)]
  /\ serverConsole = [rid \in Ids |-> ConsoleLogOf(rid)]

NextOverlap ==
  \/ Mount
  \/ AgentTick
  \/ ConsoleTick
  \/ AgentResponse
  \/ AgentFailure
  \/ ConsoleResponse
  \/ ConsoleFailure

SpecOverlap == InitOverlap /\ [][NextOverlap]_vars

----------------------------------------------------------------------------
\* The texts the calls are checked on.
MaxItems == 11
MaxLines == 3

ItemCounts == {0, 1, MaxItems}

NumLines(n) == [i \in 1..n |-> Num(i, ToString(i))]

EntityLines(n) == [i \in 1..n |-> EntityLine(ToString(i), "type")]

RelLines(n) == [i \in 1..n |-> RelLine(ToString(i), "knows", "x")]

\* An insight_forge result: query, statistics and sub-questions or none of
\* them, nf facts, ne entities (a blank line before them or not), nr relations.
InsightText(q, nf, gap, ne, nr) ==
  (IF q THEN <<Titled("if_query", "question"), Stat("if_stat_facts", nf),
               Stat("if_stat_entities", ne), Stat("if_stat_rels", nr), Blank,
               Header("if_subq_h"), Num(1, "sub1"), Num(2, "sub2"), Blank>>
   ELSE <<>>)
  \o <<Header("if_facts_h")>> \o NumLines(nf)
  \o <<Blank, Header("if_entities_h")>> \o (IF gap THEN <<Blank>> ELSE <<>>)
  \o EntityLines(ne)
  \o <<Blank, Header("if_rels_h")>> \o RelLines(nr)

InsightTexts ==
  {InsightText(q, nf, gap, ne, nr) :
     q \in BOOLEAN, nf \in ItemCounts, gap \in BOOLEAN, ne \in ItemCounts, nr \in ItemCounts}

PanoramaText(q, na, ne) ==
  (IF q THEN <<Titled("pa_query", "question"), Stat("pa_stat_nodes", 5),
               Stat("pa_stat_edges", 4), Stat("pa_stat_active", na),
               Stat("pa_stat_hist", 1), Blank>>
   ELSE <<>>)
  \o <<Header("pa_active_h")>> \o NumLines(na)
  \o <<Blank, Header("pa_entities_h")>> \o EntityLines(ne)

PanoramaTexts ==
  {PanoramaText(q, na, ne) : q \in BOOLEAN, na \in ItemCounts, ne \in ItemCounts}

QuickText(q, n) ==
  (IF q THEN <<Titled("qs_query", "question"), Stat("qs_count", n), Blank>> ELSE <<>>)
  \o <<Header("qs_facts_h")>> \o NumLines(n)

QuickTexts == {QuickText(q, n) : q \in BOOLEAN, n \in ItemCounts}

\* An interview_agents result with nb records, each with title and name or
\* with neither, answers for both platforms or one answer, and a summary or
\* none.
InterviewRecord(i, named, dual) ==
  <<Line("iv_block_h", i, 0, IF named THEN "title" ELSE "", "", "")>>
  \o (IF named THEN <<Line("iv_namerole", 0, 0, "name", "role", "")>> ELSE <<>>)
  \o <<Titled("iv_bio", "bio"), Titled("iv_q", "q1"), Num(2, "q2"), Blank,
        Titled("iv_a", "")>>
  \o (IF dual THEN <<Header("iv_tw_h"), Plain("tweet"), Header("iv_rd_h"), Plain("post")>>
      ELSE <<Plain("answer")>>)
  \o <<Blank, Header("iv_quotes_h"), Titled("quote", "quoted"), Blank, Header("rule")>>

RECURSIVE InterviewRecords(_, _, _)
InterviewRecords(nb, named, dual) ==
  IF nb = 0 THEN <<>>
  ELSE InterviewRecords(nb - 1, named, dual) \o InterviewRecord(nb, named, dual)

InterviewText(nb, named, dual, summary) ==
  <<Titled("iv_topic", "topic"), Line("iv_count", nb, 2, "", "", ""), Blank,
    Header("iv_reason_h"), Plain("reason"), Blank, Header("rule"), Blank,
    Header("iv_record_h")>>
  \o InterviewRecords(nb, named, dual)
  \o (IF summary THEN <<Header("iv_summary_h"), Plain("summary")>> ELSE <<>>)

InterviewTexts ==
  {InterviewText(nb, named, dual, summary) :
     nb \in 0..2, named \in BOOLEAN, dual \in BOOLEAN, summary \in BOOLEAN}

\* An interview_agents result with one record of three questions, whose
\* answer is a blob of up to MaxLines lines, numbered or not, under no
\* platform label, under one, or (with a second answer) under both.
AnswerLines == {Num(1, "a1"), Num(2, "a2"), Num(3, "a3"), Plain("more")}

AnswerBlobs == UNION {[1..n -> AnswerLines] : n \in 1..MaxLines}

Labels == {"none", "twitter", "reddit", "both"}

AnswerText(label, blob) ==
  <<Line("iv_block_h", 1, 0, "title", "", ""), Line("iv_namerole", 0, 0, "name", "role", ""),
    Titled("iv_q", "q1"), Num(2, "q2"), Num(3, "q3"), Blank, Titled("iv_a", "")>>
  \o (IF label \in {"twitter", "both"} THEN <<Header("iv_tw_h")>> ELSE <<>>)
  \o (IF label = "reddit" THEN <<Header("iv_rd_h")>> ELSE <<>>)
  \o blob
  \o (IF label = "both" THEN <<Header("iv_rd_h"), Plain("post")>> ELSE <<>>)

AnswerTexts == {AnswerText(label, blob) : label \in Labels, blob \in AnswerBlobs}

\* Section bodies and texts without any marker: up to MaxLines lines.
MdLines == {Plain("text"), Blank, Bullet("item"), Bullet("item2"), Num(1, "first")}

MdTexts == UNION {[1..n -> MdLines] : n \in 0..MaxLines}

\* The arguments: strings, a value that is not a string, and objects whose
\* match method throws at a later call.
Inputs ==
  {Input(t, 0) : t \in InsightTexts \cup PanoramaTexts \cup QuickTexts
                        \cup InterviewTexts \cup AnswerTexts \cup MdTexts}
  \cup {Input(<<>>, 1)}
  \cup {Input(t, k) : t \in {InsightText(TRUE, 1, TRUE, 1, 1),
                              InterviewText(1, TRUE, TRUE, TRUE)},
                      k \in 2..8}

\* A call from the template: the tool result of a timeline entry parsed, or a
\* section body rendered.
Returned(fn, value) ==
  /\ output' = [fn |-> fn, value |-> value]
  /\ UNCHANGED <<reportId, phase, session, showRawResult, timers, inflight, polls,
                 statusEmits, server, history, input>>

ParseInsightForge == Returned("parseInsightForge", parseInsightForge(input))

ParsePanorama == Returned("parsePanorama", parsePanorama(input))

ParseInterview == Returned("parseInterview", parseInterview(input))

ParseQuickSearch == Returned("parseQuickSearch", parseQuickSearch(input))

\* The interview panel rendered on a parsed tool result.
RenderInterview == Returned("InterviewDisplay", InterviewDisplay(parseInterview(input)))

\* renderMarkdown is called on the body of a generated section.
RenderMarkdown ==
  /\ input.throwsAt = 0
  /\ input.lines \in MdTexts
  /\ Returned("renderMarkdown", renderMarkdown(input))

InitParse ==
  /\ InitComponent(NoId)
  /\ serverAgent = [rid \in Ids |-> <<>>]
  /\ serverConsole = [rid \in Ids |-> <<>>]
  /\ input \in Inputs
  /\ output = NoOutput

NextParse ==
  \/ ParseInsightForge
  \/ ParsePanorama
  \/ ParseInterview
  \/ ParseQuickSearch
  \/ RenderInterview
  \/ RenderMarkdown

SpecParse == InitParse /\ [][NextParse]_vars

----------------------------------------------------------------------------
\* The user's toggles of the view.
\* !!generatedSections.value[idx + 1]: the section of list position idx is
\* completed.
HasContentAlways(idx) == TRUE

HasContent(idx) ==
  idx + 1 \in DOMAIN generatedSections /\ generatedSections[idx + 1] # ""

\* array of a Set with x added if absent, deleted if present.
Toggled(set, x) == IF x \in set THEN set \ {x} ELSE set \cup {x}

\* toggleSectionContent(idx), idx a position of reportOutline.sections;
\* returns at once for a section without content.
ToggleSectionContent ==
  \E idx \in 0..SectionsOf(reportOutline) - 1 :
    /\ phase = "mounted"
    /\ HasContent(idx)
    /\ expandedContent' = Toggled(expandedContent, idx)
    /\ UNCHANGED <<reportId, phase, agentLogs, consoleLogs, agentLogLine, consoleLogLine,
                   reportOutline, currentSectionIndex, generatedSections, expandedLogs,
                   collapsedSections, isComplete, startTime, showRawResult, timers,
                   inflight, polls, statusEmits, server, calls, history>>

\* toggleSectionCollapse(idx): the click on a section's header row.
ToggleSectionCollapse ==
  \E idx \in 0..SectionsOf(reportOutline) - 1 :
    /\ phase = "mounted"
    /\ HasContent(idx)
    /\ collapsedSections' = Toggled(collapsedSections, idx)
    /\ UNCHANGED <<reportId, phase, agentLogs, consoleLogs, agentLogLine, consoleLogLine,
                   reportOutline, currentSectionIndex, generatedSections, expandedContent,
                   expandedLogs, isComplete, startTime, showRawResult, timers,
                   inflight, polls, statusEmits, server, calls, history>>

\* toggleLogExpand(log): the click on the body of a timeline entry.
ToggleLogExpand ==
  \E i \in 1..Len(agentLogs) :
    /\ phase = "mounted"
    /\ expandedLogs' = Toggled(expandedLogs, agentLogs[i].timestamp)
    /\ UNCHANGED <<reportId, phase, agentLogs, consoleLogs, agentLogLine, consoleLogLine,
                   reportOutline, currentSectionIndex, generatedSections, expandedContent,
                   collapsedSections, isComplete, startTime, showRawResult, timers,
                   inflight, polls, statusEmits, server, calls, history>>

\* The agent logs of the reports the view is used on.  Report A: an outline
\* of one section, two tool results written in the same millisecond, and two
\* sections completed.  Report B: an outline of three sections, the second
\* completed.
ViewLogOf(rid) ==
  IF rid = "A"
  THEN <<Entry("planning_complete", null, "O3", "", 1),
         Entry("tool_result", null, NoOutline, "", 2),
         Entry("tool_result", null, NoOutline, "", 2),
         Entry("section_complete", 1, NoOutline, "Body", 3),
         Entry("section_complete", 2, NoOutline, "Other", 4)>>
  ELSE <<Entry("planning_complete", null, "O1", "", 5),
         Entry("section_complete", 2, NoOutline, "Other", 6)>>

InitView ==
  /\ InitComponent("A")
  /\ NoCalls
  /\ serverAgent = [rid \in Ids |-> ViewLogOf(rid)]
  /\ serverConsole = [rid \in Ids |-> <<>>]

NextView ==
  \/ Mount
  \/ ChangeReportId
  \/ AgentPoll
  \/ AgentResponse
  \/ ToggleRawResult
  \/ ToggleLogExpand
  \/ ToggleSectionContent
  \/ ToggleSectionCollapse

SpecView == InitView /\ [][NextView]_vars

----------------------------------------------------------------------------
\* The cursor of a stream, and the sum of a sequence of counts.
Cursor(s) == IF s = "agent" THEN agentLogLine ELSE consoleLogLine

RECURSIVE Sum(_)
Sum(cs) == IF cs = <<>> THEN 0 ELSE Head(cs) + Sum(Tail(cs))

\* A request's handling completes in this step.
Completes(m) == inflight' = Handled(m)

\* A step that starts a new session.
Resets == reportId' # reportId /\ reportId' # NoId

\* The session's initial value.
Fresh ==
  /\ agentLogs = <<>> /\ consoleLogs = <<>>
  /\ agentLogLine = 0 /\ consoleLogLine = 0
  /\ reportOutline = NoOutline /\ currentSectionIndex = null
  /\ generatedSections = <<>>
  /\ expandedContent = {} /\ expandedLogs = {} /\ collapsedSections = {}
  /\ isComplete = FALSE /\ startTime = null

\* A report_complete entry has been folded in this session.
Completed == \E i \in 1..Len(agentLogs) : agentLogs[i].action = "report_complete"

\* C1: within one session, when the successful polls of a stream are handled
\* one after another and return c1, ..., ci entries, the stream's cursor is
\* c1 + ... + ci.
C1_CursorIsSumOfCounts ==
  \A s \in Streams : serial[s] => Cursor(s) = Sum(polled[s])

C1_Witness ==
  /\ serial["agent"]
  /\ Len(polled["agent"]) >= 2
  /\ \A i \in 1..Len(polled["agent"]) : polled["agent"][i] > 0

\* C2: within one session neither cursor ever decreases, whatever the
\* interleaving of ticks and responses.
C2_CursorNeverDecreases ==
  [][~Resets =>
       /\ agentLogLine' >= agentLogLine
       /\ consoleLogLine' >= consoleLogLine]_vars

\* C3: a response to a request sent for another report id than the current
\* one changes nothing of the current session, emits nothing and stops no
\* timer.
C3_StaleResponseIgnored ==
  [][\A m \in BagToSet(inflight) :
       (reportId # NoId /\ m.rid # reportId /\ Completes(m))
         => UNCHANGED <<session, timers, statusEmits>>]_vars

\* C4: a change of reportId to a non-empty id replaces every session
\* collection, the per-entry raw/structured flags included, by its initial
\* value in that one step.
C4_ResetReplacesEverything ==
  [][(reportId' # reportId /\ reportId' # NoId)
       => (Fresh' /\ showRawResult' = <<>>)]_vars

\* C5: once both report ids have had a session, coming back to one of them
\* gives the state of a fresh session (no raw-view flag set), and no response
\* to a request of its earlier session enters it afterwards.
C5_RevisitIsFresh ==
  [][/\ (reportId' # reportId /\ reportId' \in visited /\ visited = Ids)
          => (Fresh' /\ \A t \in DOMAIN showRawResult' : ~showRawResult'[t])
     /\ \A m \in BagToSet(inflight) :
          (m.rid = reportId /\ m.stale /\ visited = Ids /\ Completes(m))
            => UNCHANGED <<session, timers, statusEmits>>]_vars

\* C6: once a report_complete entry has been folded, the completion flag is
\* set, both timers are cleared, and no request is sent while the session
\* lasts.
C6_CompleteStopsPolling ==
  [][/\ Completed' => (isComplete' /\ ~agentLogTimer' /\ ~consoleLogTimer')
     /\ (Completed /\ ~Resets) => (polls' = polls /\ inflight' \sqsubseteq inflight)]_vars

C6_Witness ==
  /\ Completed
  /\ phase = "mounted"
  /\ reportId # NoId
  /\ polls < MaxPolls

\* C7: a poll that ends without a successful response changes no session
\* state, emits nothing and leaves both timers as they are.
C7_FailedPollChangesNothing ==
  [][(AgentFailure \/ ConsoleFailure)
       => UNCHANGED <<session, showRawResult, timers, statusEmits>>]_vars

C7_Witness ==
  /\ failed = Streams
  /\ agentLogs # <<>>
  /\ agentLogTimer /\ consoleLogTimer
  /\ inflight = EmptyBag

RECURSIVE LastOutline(_)
LastOutline(logs) ==
  IF logs = <<>> THEN NoOutline
  ELSE LET e == logs[Len(logs)]
       IN  IF e.action = "planning_complete" /\ e.outline # NoOutline
           THEN e.outline
           ELSE LastOutline(SubSeq(logs, 1, Len(logs) - 1))

\* C9 as stated: once set, the outline is never changed by a later entry of
\* the session.
C9_OutlineFirstWriteWins ==
  [][(reportOutline # NoOutline /\ ~Resets) => reportOutline' = reportOutline]_vars

\* C9 as amended: the outline is last-write-wins; it is the outline of the
\* last planning_complete entry folded that carries one, and no other entry
\* changes it.
C9_OutlineLastWriteWins ==
  reportOutline = LastOutline(agentLogs)

C9_Witness ==
  \E i, j \in 1..Len(agentLogs) :
    /\ i < j
    /\ agentLogs[i].action = "planning_complete" /\ agentLogs[i].outline = "O1"
    /\ agentLogs[j].action = "planning_complete" /\ agentLogs[j].outline = "O2"
    /\ reportOutline = "O2"

\* The positions of a log that hold a section_complete entry with content,
\* and those among them for section i.
ContentCompletions(logs) ==
  {k \in 1..Len(logs) : logs[k].action = "section_complete" /\ logs[k].content # ""}

Completions(logs, i) ==
  {k \in ContentCompletions(logs) : logs[k].section_index = i}

Max(S) == CHOOSE x \in S : \A y \in S : y <= x

\* C10: generatedSections[i] exists exactly when a section_complete entry
\* with section_index i and content has been folded, and is the content of
\* the last one; folding a section_content or subsection_content entry only
\* appends the entry to the agent log.
C10_SectionsFromSectionComplete ==
  /\ DOMAIN generatedSections =
       {agentLogs[k].section_index : k \in ContentCompletions(agentLogs)}
  /\ \A i \in DOMAIN generatedSections :
       generatedSections[i] = agentLogs[Max(Completions(agentLogs, i))].content
  /\ \A e \in FoldEntries :
       e.action \in {"section_content", "subsection_content"}
         => FoldEntry(Derived, e) = [Derived EXCEPT !.agentLogs = Append(@, e)]

C10_Witness ==
  /\ \E k \in 1..Len(agentLogs) : agentLogs[k].action = "section_content"
  /\ \E k \in 1..Len(agentLogs) :
       agentLogs[k].action = "section_complete" /\ agentLogs[k].content = ""
  /\ DOMAIN generatedSections = {2}
  /\ generatedSections[2] = "Other"

\* C11: while the report id stays, the completed sections only grow: an entry
\* of generatedSections is never removed nor emptied by a later log entry, and
\* the completed-section count never decreases.
C11_CompletedSectionsOnlyGrow ==
  [][~Resets =>
       /\ DOMAIN generatedSections \subseteq DOMAIN generatedSections'
       /\ \A i \in DOMAIN generatedSections : generatedSections'[i] # ""
       /\ completedSections' >= completedSections]_vars

\* Section 1 completed with content, then another section, then a
\* section_complete for section 1 without content.
C11_Witness ==
  /\ Len(agentLogs) = 3
  /\ agentLogs[1].action = "section_complete" /\ agentLogs[1].section_index = 1
  /\ agentLogs[1].content # ""
  /\ agentLogs[3].action = "section_complete" /\ agentLogs[3].section_index = 1
  /\ agentLogs[3].content = ""
  /\ completedSections = 2
  /\ generatedSections[1] = "Body"

\* The section in progress according to a log: the section_index of its last
\* section_start entry unless a section_complete entry follows it.
RECURSIVE SectionInProgress(_)
SectionInProgress(logs) ==
  IF logs = <<>> THEN null
  ELSE LET e == logs[Len(logs)]
       IN  IF e.action = "section_start" THEN e.section_index
           ELSE IF e.action = "section_complete" THEN null
           ELSE SectionInProgress(SubSeq(logs, 1, Len(logs) - 1))

\* C12: folding a section_start entry sets currentSectionIndex to the entry's
\* section_index, folding a section_complete entry (with or without content,
\* whatever its section_index) sets it to null, and folding any other entry
\* leaves it as it is.
C12_CurrentSectionIndex ==
  /\ currentSectionIndex = SectionInProgress(agentLogs)
  /\ \A e \in FoldEntries :
       FoldEntry(Derived, e).currentSectionIndex =
         IF e.action = "section_start" THEN e.section_index
         ELSE IF e.action = "section_complete" THEN null
         ELSE currentSectionIndex

\* section_start 1, then section_start 2, then a section_complete without
\* content for another section.
C12_Witness ==
  /\ Len(agentLogs) = 3
  /\ agentLogs[1].action = "section_start" /\ agentLogs[1].section_index = 1
  /\ agentLogs[2].action = "section_start" /\ agentLogs[2].section_index = 2
  /\ agentLogs[3].action = "section_complete" /\ agentLogs[3].section_index = 1
  /\ agentLogs[3].content = ""
  /\ currentSectionIndex = null

\* C13: the completion percentage is 0 when there are no sections in the
\* outline (or no outline), and otherwise the integer nearest to
\* completedSections / totalSections * 100.
C13_ProgressPercent ==
  /\ totalSections = 0 => progressPercent = 0
  /\ totalSections > 0 =>
       /\ 2 * progressPercent * totalSections <= 200 * completedSections + totalSections
       /\ 2 * (progressPercent + 1) * totalSections > 200 * completedSections + totalSections

\* Two of three sections completed: 66.67 rounds to 67.
C13_Witness ==
  /\ totalSections = 3
  /\ completedSections = 2
  /\ progressPercent = 67

\* C16: an entry whose action is none of the eleven known ones is folded like
\* any other (appended, cursor advanced), changes no derived state, and its
\* label is the action itself.
C16_UnknownActionTolerated ==
  /\ agentLogLine = Len(agentLogs)
  /\ \A e \in FoldEntries :
       e.action \notin DOMAIN labels
         => FoldEntry(Derived, e) = [Derived EXCEPT !.agentLogs = Append(@, e)]
  /\ \A k \in 1..Len(agentLogs) :
       agentLogs[k].action \notin DOMAIN labels
         => getActionLabel(agentLogs[k].action) = agentLogs[k].action

\* C14: the two timers are set together and cleared together (one is set
\* exactly when the other is), and each stream has exactly one interval
\* running while its timer is set and none otherwise.
C14_TimersTogether ==
  /\ agentLogTimer = consoleLogTimer
  /\ intervals["agent"] = (IF agentLogTimer THEN 1 ELSE 0)
  /\ intervals["console"] = (IF consoleLogTimer THEN 1 ELSE 0)

\* After mount, a change of report id, a report_complete entry and unmount.
C14_Witness ==
  /\ reportId = "B"
  /\ "A" \in visited
  /\ statusEmits > 0
  /\ phase = "unmounted"
  /\ ~agentLogTimer /\ ~consoleLogTimer

\* C15: a tick that fires while the report id is absent sends no request and
\* changes no log, cursor, derived state or timer.
C15_TickWithoutIdIsNoOp ==
  [][(reportId = NoId /\ (AgentTick \/ ConsoleTick))
       => UNCHANGED <<session, showRawResult, timers, inflight, polls, statusEmits>>]_vars

\* Both ticks have fired without a report id in a session that had logs.
C15_Witness ==
  /\ idle = Streams
  /\ reportId = NoId
  /\ agentLogs # <<>>
  /\ agentLogTimer /\ consoleLogTimer

\* The forms of the lines of a text.
Forms(lines) == {lines[i].k : i \in 1..Len(lines)}

\* The markers each extractor looks for, its zero-valued record and the number
\* of its text.match / text.split calls.
Extractors == {"parseInsightForge", "parsePanorama", "parseInterview", "parseQuickSearch"}

Anchors(fn) ==
  CASE fn = "parseInsightForge" ->
         {"if_query", "if_stat_facts", "if_stat_entities", "if_stat_rels",
          "if_subq_h", "if_facts_h", "if_entities_h", "if_rels_h", "qs_facts_h"}
    [] fn = "parsePanorama" ->
         {"pa_query", "qs_query", "pa_stat_nodes", "pa_stat_edges", "pa_stat_active",
          "pa_stat_hist", "pa_active_h", "pa_entities_h"}
    [] fn = "parseInterview" ->
         {"iv_topic", "iv_count", "iv_reason_h", "iv_block_h", "iv_summary_h"}
    [] fn = "parseQuickSearch" -> {"qs_query", "qs_count", "qs_facts_h"}

Zero(fn) ==
  CASE fn = "parseInsightForge" -> InsightZero
    [] fn = "parsePanorama" -> PanoramaZero
    [] fn = "parseInterview" -> InterviewZero
    [] fn = "parseQuickSearch" -> QuickSearchZero

CallsOf(fn) ==
  CASE fn = "parseInsightForge" -> 8
    [] fn = "parsePanorama" -> 7
    [] fn = "parseInterview" -> 5
    [] fn = "parseQuickSearch" -> 3

\* C17: an extractor given the empty string, or a string with none of its
\* markers, returns its zero-valued record.
C17_NoAnchorsGivesZero ==
  (/\ output.fn \in Extractors
   /\ input.throwsAt = 0
   /\ Forms(input.lines) \cap Anchors(output.fn) = {})
    => output.value = Zero(output.fn)

\* parseQuickSearch on a text of numbered lines and a list item with no marker.
C17_Witness ==
  /\ output.fn = "parseQuickSearch"
  /\ input = Input(<<Num(1, "first"), Bullet("item"), Num(1, "first")>>, 0)
  /\ output.value = QuickSearchZero

ItemsOf(lines, header, form) ==
  SelectSeq(Section(lines, header).body, LAMBDA l : l.k = form)

\* C19: the list fields are capped, and what is emitted are the first items
\* of the section in input order.
C19_ListsCapped ==
  /\ (output.fn = "parseInsightForge" /\ input.throwsAt = 0) =>
       /\ Len(output.value.facts) <= 10
       /\ Len(output.value.entities) <= 8
       /\ Len(output.value.relations) <= 6
       /\ output.value.facts = Take(TextsOf(ItemsOf(input.lines, "if_facts_h", "num")), 10)
       /\ output.value.entities = Take(Names(ItemsOf(input.lines, "if_entities_h", "entity")), 8)
       /\ Len(output.value.relations)
            = Min(6, Len(ItemsOf(input.lines, "if_rels_h", "rel")))
       /\ \A i \in 1..Len(output.value.relations) :
            output.value.relations[i].source = ItemsOf(input.lines, "if_rels_h", "rel")[i].a
  /\ (output.fn = "parsePanorama" /\ input.throwsAt = 0) =>
       /\ Len(output.value.activeFacts) <= 8
       /\ Len(output.value.entities) <= 10
       /\ output.value.activeFacts = Take(TextsOf(ItemsOf(input.lines, "pa_active_h", "num")), 8)
       /\ output.value.entities = Take(Names(ItemsOf(input.lines, "pa_entities_h", "entity")), 10)
  /\ (output.fn = "parseQuickSearch" /\ input.throwsAt = 0) =>
       /\ Len(output.value.facts) <= 10
       /\ output.value.facts
            = IF First(input.lines, {"qs_facts_h"}) = 0 THEN <<>>
              ELSE Take(TextsOf(SelectSeq(After(input.lines, First(input.lines, {"qs_facts_h"})),
                                         IsNum)), 10)

\* The first lines of the runs of adjacent list lines of a text.
ItemRuns(lines) ==
  {i \in 1..Len(lines) :
     lines[i].k \in ListForms /\ (i = 1 \/ lines[i - 1].k \notin ListForms)}

\* C20: adjacent unordered list lines are rendered as one list container
\* holding their items: "- item" followed by "- item2" gives one container
\* with two items.
C20_AdjacentItemsOneList ==
  output.fn = "renderMarkdown" =>
    /\ Cardinality({i \in 1..Len(output.value) : output.value[i].tag = "ul"})
         = Cardinality(ItemRuns(input.lines))
    /\ input.lines = <<Bullet("item"), Bullet("item2")>>
         => output.value = <<El("ul", <<"item", "item2">>)>>

\* A log is the first entries of another, in its order.
IsPrefix(log, whole) ==
  /\ Len(log) <= Len(whole)
  /\ \A i \in 1..Len(log) : log[i] = whole[i]

\* C21: within one session, whatever the interleaving of ticks and responses
\* (requests of one stream in flight together included), each in-memory log
\* is a prefix of the endpoint's log, without duplicate or gap, and as long as
\* the stream's cursor says.
C21_LogsArePrefixes ==
  /\ IsPrefix(agentLogs, serverAgent[reportId])
  /\ Len(agentLogs) = agentLogLine
  /\ IsPrefix(consoleLogs, serverConsole[reportId])
  /\ Len(consoleLogs) = consoleLogLine

\* C22: for a report whose agent log holds one report_complete entry, the
\* 'update-status: completed' notification is emitted at most once in the
\* session.
C22_CompletedEmittedOnce ==
  statusEmits <= 1

\* C23: for a fixed report id, every console line the endpoint holds is
\* eventually in consoleLogs, provided the console endpoint eventually
\* answers; the lines not yet fetched when report_complete is folded included.
C23_ConsoleEventuallyComplete ==
  <>(consoleLogs = serverConsole[reportId])

\* The expanded state and the view of the i-th entry of the timeline.
Expanded(i) == agentLogs[i].timestamp \in expandedLogs

RawShown(i) ==
  /\ agentLogs[i].timestamp \in DOMAIN showRawResult
  /\ showRawResult[agentLogs[i].timestamp]

\* C24: entries are told apart by their list position: a toggle of the
\* expanded state or of the raw/structured view of one entry changes neither
\* the expanded state nor the view of another entry, the same timestamp or not.
C24_TogglesAreByPosition ==
  [][(ToggleLogExpand \/ ToggleRawResult) =>
       \A i, j \in 1..Len(agentLogs) :
         (i # j /\ (Expanded(i)' # Expanded(i) \/ RawShown(i)' # RawShown(i)))
           => (Expanded(j)' = Expanded(j) /\ RawShown(j)' = RawShown(j))]_vars

\* C28: every index of the expanded-section set and of the collapsed-section
\* set is the list position of a section that has content.
C28_SetsHoldCompletedSections ==
  \A idx \in expandedContent \cup collapsedSections :
    /\ idx + 1 \in DOMAIN generatedSections
    /\ generatedSections[idx + 1] # ""

\* After a session in which the user has toggled a view, and a reset: the new
\* session has folded a section, the user has collapsed it and closed its
\* content.
C28_Witness ==
  /\ reportId = "B"
  /\ "A" \in visited
  /\ showRawResult # <<>>
  /\ DOMAIN generatedSections = {2}
  /\ collapsedSections = {1}
  /\ expandedContent = {}

\* A second planning_complete entry with an outline other than the first's has
\* been folded.
SecondOutline ==
  \E i, j \in 1..Len(agentLogs) :
    /\ i < j
    /\ agentLogs[i].action = "planning_complete" /\ agentLogs[i].outline # NoOutline
    /\ agentLogs[j].action = "planning_complete" /\ agentLogs[j].outline # NoOutline
    /\ agentLogs[i].outline # agentLogs[j].outline

\* C25 as stated: the two variants of the view differ on a second
\* planning_complete entry that carries an outline: after it they hold
\* different outlines.
C25_VariantsDiffer ==
  SecondOutline => PartOutline(agentLogs) # reportOutline

\* C25 as amended: the two variants agree; both overwrite the outline, and
\* after every entry stream they hold the same outline.
C25_VariantsAgree ==
  PartOutline(agentLogs) = reportOutline

C25_Witness ==
  /\ SecondOutline
  /\ agentLogs[1].outline = "O2"
  /\ reportOutline = "O1"
  /\ PartOutline(agentLogs) = "O1"

\* C27: the completion percentage is between 0 and 100, whatever the entry
\* stream (a section_complete entry for a section outside the outline
\* included).
C27_PercentInRange ==
  progressPercent >= 0 /\ progressPercent <= 100

\* C30: the streams do not touch each other's data: handling a console
\* response changes nothing of the session but consoleLogs and the console
\* cursor, and handling an agent response changes neither of these.
C30_StreamsDoNotInterfere ==
  [][/\ (ConsoleResponse \/ ConsoleFailure) =>
          UNCHANGED <<agentLogs, agentLogLine, reportOutline, currentSectionIndex,
                      generatedSections, expandedContent, expandedLogs,
                      collapsedSections, isComplete, startTime, showRawResult,
                      timers, statusEmits>>
     /\ (AgentResponse \/ AgentFailure) => UNCHANGED <<consoleLogs, consoleLogLine>>]_vars

\* Both streams have appended entries, and their cursors differ.
C30_Witness ==
  /\ reportId = "A"
  /\ visited = {"A"}
  /\ Len(agentLogs) = 1 /\ agentLogLine = 1
  /\ Len(consoleLogs) = 2 /\ consoleLogLine = 2
  /\ inflight = EmptyBag

\* The markers of questions 2..N are found in a blob, one after another.
MarkersInOrder(blob, N) ==
  \E f \in [2..N -> 2..Len(blob)] :
    /\ \A k \in 2..N : IsMarker(blob[f[k]], k)
    /\ \A k \in 2..(N - 1) : f[k] < f[k + 1]

\* The entire blob as the answer to question index 0, nothing for the others.
WholeToFirst(blob, N) == [q \in 1..N |-> IF q = 1 THEN blob ELSE <<>>]

\* C26: when not all of the markers of an answer blob's N questions are
\* located, the whole blob is the answer to question index 0 and every other
\* question has an empty answer: a blob split in part is never distributed.
C26_FailedSplitGivesWholeBlob ==
  output.fn = "InterviewDisplay" =>
    \A i \in 1..Len(output.value) :
      LET blob == output.value[i].interview.twitterAnswer
          N == Len(output.value[i].thread)
      IN  (blob # <<>> /\ ~MarkersInOrder(blob, N)) =>
            [q \in 1..N |-> output.value[i].thread[q].answerText] = WholeToFirst(blob, N)

\* C29: an interview with an answer for a platform (Twitter-labelled,
\* Reddit-labelled or unlabelled) shows an answer to question index 0 under
\* the default platform selection.
C29_AnswerShownByDefault ==
  output.fn = "InterviewDisplay" =>
    \A i \in 1..Len(output.value) :
      (output.value[i].interview.twitterAnswer # <<>>
         \/ output.value[i].interview.redditAnswer # <<>>)
        => output.value[i].thread[1].answerText # <<>>

====
